---- MODULE Spec2Model ----
(***************************************************************************)
(* Model of UserProgressRepository (src/src/database/types.ts, 257-396):   *)
(* the per-user, per-lesson progress store.  The table userProgress is a   *)
(* set of rows; every repository method is one action, except              *)
(* markStepComplete, which awaits findUnique and then upsert and is        *)
(* therefore two steps between which other callers may run.                *)
(***************************************************************************)
EXTENDS Integers, Sequences, FiniteSets, TLC

\* ------------------------------------------------------------------ bounds
NumSlots == 2
MaxCalls == 3
MaxStep == 1
MaxAmount == 1
MaxTime == 1

Users == {"u1", "u2"}
Lessons == {"l1", "l2"}
\* Two lessons of one user and one lesson of two users.
Pairs == {<<"u1", "l1">>, <<"u1", "l2">>, <<"u2", "l1">>}
\* The (userId, lessonId) pair the callers of Spec work on; the callers of
\* SpecPairs work on all of Pairs.
Keys == {<<"u1", "l1">>}
Slots == 1..NumSlots
Steps == 0..MaxStep
Seconds == 1..MaxAmount
Deltas == 1..MaxAmount
\* The numbers the signatures admit: the arguments are `number`, and no
\* method looks at their sign.
AnySteps == (-1)..MaxStep
AnyAmounts == (-MaxAmount)..MaxAmount

VARIABLES
    rows,     \* the userProgress table: a set of rows
    nextId,   \* the next generated row id
    now,      \* the clock read by new Date() and by the startedAt default
    slot,     \* markStepComplete calls between their findUnique and upsert
    last,     \* the call that completed last: arguments and return value
    ncalls,   \* number of completed calls
    hist      \* per key: what the completed calls supplied

vars == <<rows, nextId, now, slot, last, ncalls, hist>>

\* ------------------------------------------------- optional values, payloads
None == <<>>
Some(x) == <<x>>
OrElse(o, d) == IF o = None THEN d ELSE o[1]

Unset == <<>>
SetTo(v) == <<"set", v>>
Increment(v) == <<"increment", v>>

Max(a, b) == IF a >= b THEN a ELSE b

Includes(s, x) == \E i \in 1..Len(s) : s[i] = x

Count(s, x) == Cardinality({i \in 1..Len(s) : s[i] = x})

Elems(s) == {s[i] : i \in 1..Len(s)}

\* --------------------------------------------------------------- input sets
\* The completedSteps arrays a caller supplies: up to two steps, repeated or
\* out of order.
StepSeqs == {<<>>} \cup {<<a>> : a \in Steps} \cup {<<a, b>> : a, b \in Steps}

\* UpsertProgressInput with no optional field supplied.
NoInput(k) == [userId |-> k[1], lessonId |-> k[2],
               currentStep |-> None, completedSteps |-> None,
               timeSpentSecs |-> None, hintsUsed |-> None, attempts |-> None]

\* UpsertProgressInput: userId, lessonId and five optional fields.  The
\* fields are spread into the payloads one by one, so the inputs supply at
\* most one of them per call.
UpsertInputs ==
    {NoInput(k) : k \in Keys}
    \cup {[NoInput(k) EXCEPT !.currentStep = Some(c)] :
            k \in Keys, c \in 0..(MaxStep + 1)}
    \cup {[NoInput(k) EXCEPT !.completedSteps = Some(q)] :
            k \in Keys, q \in StepSeqs}
    \cup {[NoInput(k) EXCEPT ![f] = Some(d)] :
            k \in Keys, f \in {"timeSpentSecs", "hintsUsed", "attempts"},
            d \in Deltas}

\* ------------------------------------------------------- the table and Prisma
Matching(rs, u, l) == {r \in rs : r.userId = u /\ r.lessonId = l}

\* prisma.userProgress.findUnique({where: {userId_lessonId}})
FindUnique(rs, u, l) ==
    IF Matching(rs, u, l) = {} THEN None
    ELSE Some(CHOOSE r \in Matching(rs, u, l) : TRUE)

\* The column defaults of the table (spec 4.1: currentStep 0, completedSteps
\* empty, counters 0).
ColumnDefault == [currentStep |-> 0, completedSteps |-> <<>>,
                  timeSpentSecs |-> 0, hintsUsed |-> 0, attempts |-> 0]

\* A row inserted from a create payload: the fields the payload omits take
\* the column defaults, id and startedAt are generated, completedAt is null.
NewRow(c, id, t) ==
    [id |-> id, userId |-> c.userId, lessonId |-> c.lessonId,
     completedSteps |-> OrElse(c.completedSteps, ColumnDefault.completedSteps),
     currentStep |-> OrElse(c.currentStep, ColumnDefault.currentStep),
     startedAt |-> t, completedAt |-> None,
     timeSpentSecs |-> OrElse(c.timeSpentSecs, ColumnDefault.timeSpentSecs),
     hintsUsed |-> OrElse(c.hintsUsed, ColumnDefault.hintsUsed),
     attempts |-> OrElse(c.attempts, ColumnDefault.attempts)]

\* One field of an update payload: absent, a plain value, or {increment: v}.
ApplyField(old, f) ==
    IF f = Unset THEN old
    ELSE IF f[1] = "set" THEN f[2]
    ELSE old + f[2]

ApplyUpdate(r, upd) ==
    [r EXCEPT !.currentStep = ApplyField(@, upd.currentStep),
              !.completedSteps = ApplyField(@, upd.completedSteps),
              !.timeSpentSecs = ApplyField(@, upd.timeSpentSecs),
              !.hintsUsed = ApplyField(@, upd.hintsUsed),
              !.attempts = ApplyField(@, upd.attempts),
              !.completedAt = ApplyField(@, upd.completedAt)]

NoUpdate == [currentStep |-> Unset, completedSteps |-> Unset,
             timeSpentSecs |-> Unset, hintsUsed |-> Unset,
             attempts |-> Unset, completedAt |-> Unset]

NoCreate(u, l) == [userId |-> u, lessonId |-> l,
                   currentStep |-> None, completedSteps |-> None,
                   timeSpentSecs |-> None, hintsUsed |-> None,
                   attempts |-> None]

\* prisma.userProgress.upsert({where: {userId_lessonId}, create, update}):
\* one atomic statement on the row of the key.
PrismaUpsert(rs, u, l, create, update, id, t) ==
    IF Matching(rs, u, l) = {} THEN rs \cup {NewRow(create, id, t)}
    ELSE (rs \ Matching(rs, u, l))
         \cup {ApplyUpdate(r, update) : r \in Matching(rs, u, l)}

\* Mutant: the where clause of update selects by userId only.
PrismaUpdate_ByUser(rs, u, l, data) ==
    {IF r.userId = u THEN ApplyUpdate(r, data) ELSE r : r \in rs}

\* prisma.userProgress.update({where: {userId_lessonId}, data})
PrismaUpdate(rs, u, l, data) ==
    (rs \ Matching(rs, u, l))
    \cup {ApplyUpdate(r, data) : r \in Matching(rs, u, l)}

\* ------------------------------------------------------------ return values
Returned(rs, u, l) == [status |-> "ok", value |-> FindUnique(rs, u, l)]
Void == [status |-> "ok", value |-> None]
NotFound == [status |-> "NotFound", value |-> None]

NoCall == [op |-> "none", userId |-> "", lessonId |-> "", arg |-> 0,
           existing |-> None, before |-> None, ret |-> Void]

NoHist == [marks |-> [n \in AnySteps |-> 0], secs |-> 0, upserts |-> 0,
           replaced |-> FALSE]

Init ==
    /\ rows = {}
    /\ nextId = 1
    /\ now = 0
    /\ slot = [i \in Slots |-> None]
    /\ last = NoCall
    /\ ncalls = 0
    /\ hist = [k \in Pairs |-> NoHist]

InFlight == Cardinality({i \in Slots : slot[i] # None})

CanCall == ncalls + InFlight < MaxCalls

\* What a completed call leaves behind: its arguments, the row it read (if
\* it read one), the row of its key just before its write, and its result.
Finish(op, u, l, arg, ex, r) ==
    /\ last' = [op |-> op, userId |-> u, lessonId |-> l, arg |-> arg,
                existing |-> ex, before |-> FindUnique(rows, u, l), ret |-> r]
    /\ ncalls' = ncalls + 1

Created(rs, u, l) == IF Matching(rs, u, l) = {} THEN nextId + 1 ELSE nextId

\* ------------------------------------------------------------ upsertProgress
UpsertCreate(data) ==
    [userId |-> data.userId, lessonId |-> data.lessonId,
     currentStep |-> Some(OrElse(data.currentStep, 0)),
     completedSteps |-> Some(OrElse(data.completedSteps, <<>>)),
     timeSpentSecs |-> Some(OrElse(data.timeSpentSecs, 0)),
     hintsUsed |-> Some(OrElse(data.hintsUsed, 0)),
     attempts |-> Some(OrElse(data.attempts, 0))]

Spread(o, asSet) ==
    IF o = None THEN Unset
    ELSE IF asSet THEN SetTo(o[1]) ELSE Increment(o[1])

\* Mutant: the counters are written instead of incremented.
UpsertUpdate_Overwrite(data) ==
    [NoUpdate EXCEPT !.currentStep = Spread(data.currentStep, TRUE),
                     !.completedSteps = Spread(data.completedSteps, TRUE),
                     !.timeSpentSecs = Spread(data.timeSpentSecs, TRUE),
                     !.hintsUsed = Spread(data.hintsUsed, TRUE),
                     !.attempts = Spread(data.attempts, TRUE)]

\* Mutant: an update of the progress resets the completion.
UpsertUpdate_ResetsCompletion(data) ==
    [NoUpdate EXCEPT !.currentStep = Spread(data.currentStep, TRUE),
                     !.completedSteps = Spread(data.completedSteps, TRUE),
                     !.timeSpentSecs = Spread(data.timeSpentSecs, FALSE),
                     !.hintsUsed = Spread(data.hintsUsed, FALSE),
                     !.attempts = Spread(data.attempts, FALSE),
                     !.completedAt = SetTo(None)]

\* Mutant: the update payload defaults the fields that are not supplied, as
\* the create payload does.
UpsertUpdate_DefaultsOmitted(data) ==
    [NoUpdate EXCEPT
       !.currentStep = SetTo(OrElse(data.currentStep, 0)),
       !.completedSteps = SetTo(OrElse(data.completedSteps, <<>>)),
       !.timeSpentSecs = Increment(OrElse(data.timeSpentSecs, 0)),
       !.hintsUsed = Increment(OrElse(data.hintsUsed, 0)),
       !.attempts = Increment(OrElse(data.attempts, 0))]

UpsertUpdate(data) ==
    [NoUpdate EXCEPT !.currentStep = Spread(data.currentStep, TRUE),
                     !.completedSteps = Spread(data.completedSteps, TRUE),
                     !.timeSpentSecs = Spread(data.timeSpentSecs, FALSE),
                     !.hintsUsed = Spread(data.hintsUsed, FALSE),
                     !.attempts = Spread(data.attempts, FALSE)]

UpsertProgress(data) ==
    /\ CanCall
    /\ rows' = PrismaUpsert(rows, data.userId, data.lessonId,
                            UpsertCreate(data), UpsertUpdate(data), nextId, now)
    /\ nextId' = Created(rows, data.userId, data.lessonId)
    /\ Finish("upsertProgress", data.userId, data.lessonId, data, None,
              Returned(rows', data.userId, data.lessonId))
    /\ hist' = [hist EXCEPT ![<<data.userId, data.lessonId>>] =
                  [@ EXCEPT !.upserts = @ + 1,
                            !.replaced = @ \/ data.currentStep # None
                                           \/ data.completedSteps # None]]
    /\ UNCHANGED <<now, slot>>

\* ---------------------------------------------------------- markStepComplete
\* First await: findUnique.  The call then holds `existing` until its upsert.
\* Calls in flight are interchangeable: a new one takes the first free slot.
MarkRead(i, u, l, n) ==
    /\ CanCall
    /\ slot[i] = None
    /\ \A j \in Slots : j < i => slot[j] # None
    /\ slot' = [slot EXCEPT ![i] = Some([userId |-> u, lessonId |-> l,
                                        stepNumber |-> n,
                                        existing |-> FindUnique(rows, u, l)])]
    /\ UNCHANGED <<rows, nextId, now, last, ncalls, hist>>

\* Mutant: the membership test is dropped.
UpdatedSteps_AlwaysAppend(ex, n) ==
    Append(IF ex = None THEN <<>> ELSE ex[1].completedSteps, n)

\* Mutant: the membership test looks at the last step only.
UpdatedSteps_TestsLast(ex, n) ==
    LET currentSteps == IF ex = None THEN <<>> ELSE ex[1].completedSteps
    IN  IF currentSteps # <<>> /\ currentSteps[Len(currentSteps)] = n
        THEN currentSteps
        ELSE Append(currentSteps, n)

UpdatedSteps(ex, n) ==
    LET currentSteps == IF ex = None THEN <<>> ELSE ex[1].completedSteps
    IN  IF Includes(currentSteps, n) THEN currentSteps
        ELSE Append(currentSteps, n)

\* Mutant: the create branch seeds the cursor at the step itself.
MarkCreate_CursorAtStep(u, l, n) ==
    [NoCreate(u, l) EXCEPT !.currentStep = Some(n),
                           !.completedSteps = Some(<<n>>),
                           !.attempts = Some(1)]

MarkCreate(u, l, n) ==
    [NoCreate(u, l) EXCEPT !.currentStep = Some(n + 1),
                           !.completedSteps = Some(<<n>>),
                           !.attempts = Some(1)]

\* Mutant: the update branch writes the whole row it read back.
MarkUpdate_WriteBack(ex, n) ==
    [NoUpdate EXCEPT
       !.completedSteps = SetTo(UpdatedSteps(ex, n)),
       !.currentStep = SetTo(Max(IF ex = None THEN 0 ELSE ex[1].currentStep,
                                 n + 1)),
       !.timeSpentSecs = SetTo(IF ex = None THEN 0 ELSE ex[1].timeSpentSecs),
       !.attempts = Increment(1)]

\* Mutant: the cursor is set past the step without Math.max.
MarkUpdate_NoMax(ex, n) ==
    [NoUpdate EXCEPT
       !.completedSteps = SetTo(UpdatedSteps(ex, n)),
       !.currentStep = SetTo(n + 1),
       !.attempts = Increment(1)]

\* Mutant: a step that is already complete is not counted as an attempt.
MarkUpdate_AttemptOnNewStep(ex, n) ==
    [NoUpdate EXCEPT
       !.completedSteps = SetTo(UpdatedSteps(ex, n)),
       !.currentStep = SetTo(Max(IF ex = None THEN 0 ELSE ex[1].currentStep,
                                 n + 1)),
       !.attempts = Increment(IF ex # None /\ Includes(ex[1].completedSteps, n)
                              THEN 0 ELSE 1)]

MarkUpdate(ex, n) ==
    [NoUpdate EXCEPT
       !.completedSteps = SetTo(UpdatedSteps(ex, n)),
       !.currentStep = SetTo(Max(IF ex = None THEN 0 ELSE ex[1].currentStep,
                                 n + 1)),
       !.attempts = Increment(1)]

\* Mutant: the write inserts when the read found no row, instead of leaving
\* the choice to the upsert.
MarkWrite_InsertOnStaleRead(i) ==
    /\ slot[i] # None
    /\ LET c == slot[i][1]
           u == c.userId
           l == c.lessonId
           n == c.stepNumber
       IN /\ rows' = IF c.existing = None
                     THEN rows \cup {NewRow(MarkCreate(u, l, n), nextId, now)}
                     ELSE PrismaUpdate(rows, u, l, MarkUpdate(c.existing, n))
          /\ nextId' = IF c.existing = None THEN nextId + 1 ELSE nextId
          /\ Finish("markStepComplete", u, l, n, c.existing,
                    Returned(rows', u, l))
          /\ hist' = [hist EXCEPT ![<<u, l>>].marks[n] = @ + 1]
    /\ slot' = [slot EXCEPT ![i] = None]
    /\ UNCHANGED now

\* Second await: upsert with the payloads computed from `existing`.
MarkWrite(i) ==
    /\ slot[i] # None
    /\ LET c == slot[i][1]
           u == c.userId
           l == c.lessonId
           n == c.stepNumber
       IN /\ rows' = PrismaUpsert(rows, u, l, MarkCreate(u, l, n),
                                  MarkUpdate(c.existing, n), nextId, now)
          /\ nextId' = Created(rows, u, l)
          /\ Finish("markStepComplete", u, l, n, c.existing,
                    Returned(rows', u, l))
          /\ hist' = [hist EXCEPT ![<<u, l>>].marks[n] = @ + 1]
    /\ slot' = [slot EXCEPT ![i] = None]
    /\ UNCHANGED now

\* -------------------------------------------------------------- addTimeSpent
\* Mutant: creating the record by addTimeSpent counts as an attempt.
TimeCreate_CountsAttempt(u, l, s) ==
    [NoCreate(u, l) EXCEPT !.timeSpentSecs = Some(s), !.attempts = Some(1)]

TimeCreate(u, l, s) == [NoCreate(u, l) EXCEPT !.timeSpentSecs = Some(s)]

\* Mutant: the update branch writes the value instead of incrementing.
TimeUpdate_Overwrite(s) == [NoUpdate EXCEPT !.timeSpentSecs = SetTo(s)]

TimeUpdate(s) == [NoUpdate EXCEPT !.timeSpentSecs = Increment(s)]

AddTimeSpent(u, l, s) ==
    /\ CanCall
    /\ rows' = PrismaUpsert(rows, u, l, TimeCreate(u, l, s), TimeUpdate(s),
                            nextId, now)
    /\ nextId' = Created(rows, u, l)
    /\ Finish("addTimeSpent", u, l, s, None, Void)
    /\ hist' = [hist EXCEPT ![<<u, l>>].secs = @ + s]
    /\ UNCHANGED <<now, slot>>

\* -------------------------------------------------------- markLessonComplete
CompleteData(t) == [NoUpdate EXCEPT !.completedAt = SetTo(Some(t))]

\* Mutant: the completion is written with upsert, which creates the row.
MarkLessonComplete_Upsert(u, l) ==
    /\ CanCall
    /\ rows' = PrismaUpsert(rows, u, l, NoCreate(u, l), CompleteData(now),
                            nextId, now)
    /\ Finish("markLessonComplete", u, l, 0, None, Returned(rows', u, l))
    /\ nextId' = Created(rows, u, l)
    /\ UNCHANGED <<now, slot, hist>>

\* Mutant: a completion already recorded is kept.
MarkLessonComplete_KeepFirst(u, l) ==
    /\ CanCall
    /\ IF Matching(rows, u, l) = {}
       THEN /\ rows' = rows
            /\ Finish("markLessonComplete", u, l, 0, None, NotFound)
       ELSE /\ rows' = {IF r \in Matching(rows, u, l) /\ r.completedAt = None
                        THEN ApplyUpdate(r, CompleteData(now)) ELSE r :
                        r \in rows}
            /\ Finish("markLessonComplete", u, l, 0, None,
                      Returned(rows', u, l))
    /\ UNCHANGED <<nextId, now, slot, hist>>

\* prisma update rejects when no row matches the where clause.
MarkLessonComplete(u, l) ==
    /\ CanCall
    /\ IF Matching(rows, u, l) = {}
       THEN /\ rows' = rows
            /\ Finish("markLessonComplete", u, l, 0, None, NotFound)
       ELSE /\ rows' = PrismaUpdate(rows, u, l, CompleteData(now))
            /\ Finish("markLessonComplete", u, l, 0, None,
                      Returned(rows', u, l))
    /\ UNCHANGED <<nextId, now, slot, hist>>

\* -------------------------------------------------------------------- clock
Tick ==
    /\ now < MaxTime
    /\ now' = now + 1
    /\ UNCHANGED <<rows, nextId, slot, last, ncalls, hist>>

DoUpsertProgress == CanCall /\ \E data \in UpsertInputs : UpsertProgress(data)

DoMarkRead == CanCall /\ \E i \in Slots, k \in Keys, n \in Steps :
                            MarkRead(i, k[1], k[2], n)

DoMarkWrite == \E i \in Slots : MarkWrite(i)

DoAddTimeSpent == CanCall /\ \E k \in Keys, s \in Seconds :
                                AddTimeSpent(k[1], k[2], s)

DoMarkLessonComplete == CanCall /\ \E k \in Keys : MarkLessonComplete(k[1], k[2])

Next ==
    \/ DoUpsertProgress
    \/ DoMarkRead
    \/ DoMarkWrite
    \/ DoAddTimeSpent
    \/ DoMarkLessonComplete
    \/ Tick

Spec == Init /\ [][Next]_vars

\* The same operations on every (userId, lessonId) pair, upsertProgress with
\* no optional field.
PairsUpsertProgress == CanCall /\ \E k \in Pairs : UpsertProgress(NoInput(k))

PairsMarkRead == CanCall /\ \E i \in Slots, k \in Pairs, n \in Steps :
                               MarkRead(i, k[1], k[2], n)

PairsAddTimeSpent == CanCall /\ \E k \in Pairs, s \in Seconds :
                                   AddTimeSpent(k[1], k[2], s)

PairsMarkLessonComplete == CanCall /\ \E k \in Pairs :
                                         MarkLessonComplete(k[1], k[2])

NextPairs ==
    \/ PairsUpsertProgress
    \/ PairsMarkRead
    \/ DoMarkWrite
    \/ PairsAddTimeSpent
    \/ PairsMarkLessonComplete
    \/ Tick

SpecPairs == Init /\ [][NextPairs]_vars

\* The calls on every pair within one tick of the clock.
NextKeys ==
    \/ PairsUpsertProgress
    \/ PairsMarkRead
    \/ DoMarkWrite
    \/ PairsAddTimeSpent
    \/ PairsMarkLessonComplete

SpecKeys == Init /\ [][NextKeys]_vars

\* The same operations on one key with arguments of either sign;
\* upsertProgress supplies one counter.
AnyCounterInputs ==
    {[NoInput(k) EXCEPT ![f] = Some(d)] :
        k \in Keys, f \in {"timeSpentSecs", "hintsUsed", "attempts"},
        d \in AnyAmounts}

AnyUpsertProgress == CanCall /\ \E data \in AnyCounterInputs : UpsertProgress(data)

AnyMarkRead == CanCall /\ \E i \in Slots, k \in Keys, n \in AnySteps :
                             MarkRead(i, k[1], k[2], n)

AnyAddTimeSpent == CanCall /\ \E k \in Keys, s \in AnyAmounts :
                                 AddTimeSpent(k[1], k[2], s)

NextAny ==
    \/ AnyUpsertProgress
    \/ AnyMarkRead
    \/ DoMarkWrite
    \/ AnyAddTimeSpent

SpecAny == Init /\ [][NextAny]_vars

\* ------------------------------------------------------------------ getStats
\* prisma.userProgress.findMany({where: {userId}}): the rows of the user as
\* a list (here in the order of their ids).
RECURSIVE ListOf(_)
ListOf(rs) ==
    IF rs = {} THEN <<>>
    ELSE LET first == CHOOSE r \in rs : \A q \in rs : r.id <= q.id
         IN  <<first>> \o ListOf(rs \ {first})

\* Mutant: the where clause is dropped.
FindMany_AllUsers(rs, u) == ListOf(rs)

FindMany(rs, u) == ListOf({r \in rs : r.userId = u})

\* progressList.reduce((sum, p) => sum + p[field], 0)
RECURSIVE ReduceSum(_, _)
ReduceSum(list, field) ==
    IF list = <<>> THEN 0
    ELSE ReduceSum(SubSeq(list, 1, Len(list) - 1), field)
         + list[Len(list)][field]

IsCompleted(p) == p.completedAt # None

StatsOf(rs, u) ==
    LET progressList == FindMany(rs, u)
    IN  [totalLessons |-> Len(progressList),
         completedLessons |-> Len(SelectSeq(progressList, IsCompleted)),
         totalTimeSpent |-> ReduceSum(progressList, "timeSpentSecs"),
         totalHintsUsed |-> ReduceSum(progressList, "hintsUsed")]

GetStats(u) ==
    /\ CanCall
    /\ Finish("getStats", u, "", 0, None,
              [status |-> "ok", value |-> Some(StatsOf(rows, u))])
    /\ UNCHANGED <<rows, nextId, now, slot, hist>>

DoGetStats == CanCall /\ \E u \in Users : GetStats(u)

\* getStats on every table the pairs can have: per pair no row, or a row
\* with any completion, time and hints.
PairList == <<<<"u1", "l1">>, <<"u1", "l2">>, <<"u2", "l1">>>>

PairId(k) == CHOOSE i \in DOMAIN PairList : PairList[i] = k

StoredRow(k, f) ==
    [id |-> PairId(k), userId |-> k[1], lessonId |-> k[2],
     completedSteps |-> <<>>, currentStep |-> 0, startedAt |-> 0,
     completedAt |-> f.completedAt, timeSpentSecs |-> f.timeSpentSecs,
     hintsUsed |-> f.hintsUsed, attempts |-> 0]

StoredFields ==
    [completedAt : {None} \cup {Some(t) : t \in 0..MaxTime},
     timeSpentSecs : 0..MaxAmount, hintsUsed : 0..MaxAmount]

InitStats ==
    /\ \E f \in [Pairs -> {None} \cup {Some(x) : x \in StoredFields}] :
          rows = {StoredRow(k, f[k][1]) : k \in {q \in Pairs : f[q] # None}}
    /\ nextId = Len(PairList) + 1
    /\ now = MaxTime
    /\ slot = [i \in Slots |-> None]
    /\ last = NoCall
    /\ ncalls = 0
    /\ hist = [k \in Pairs |-> NoHist]

NextStats == DoGetStats

SpecStats == InitStats /\ [][NextStats]_vars

\* --------------------------------------------------------------- getProgress
MapToDbProgress(progress) ==
    [id |-> progress.id, userId |-> progress.userId,
     lessonId |-> progress.lessonId,
     completedSteps |-> progress.completedSteps,
     currentStep |-> progress.currentStep, startedAt |-> progress.startedAt,
     completedAt |-> progress.completedAt,
     timeSpentSecs |-> progress.timeSpentSecs,
     hintsUsed |-> progress.hintsUsed, attempts |-> progress.attempts]

\* Mutant: the completion is lost on the way out.
ReadProgress_DropsCompletion(rs, u, l) ==
    LET progress == FindUnique(rs, u, l)
    IN  IF progress = None THEN None
        ELSE Some([MapToDbProgress(progress[1]) EXCEPT !.completedAt = None])

ReadProgress(rs, u, l) ==
    LET progress == FindUnique(rs, u, l)
    IN  IF progress = None THEN None ELSE Some(MapToDbProgress(progress[1]))

GetProgress(u, l) ==
    /\ CanCall
    /\ Finish("getProgress", u, l, 0, None,
              [status |-> "ok", value |-> ReadProgress(rows, u, l)])
    /\ UNCHANGED <<rows, nextId, now, slot, hist>>

\* A single-threaded caller: it awaits every call before it makes the next,
\* so a call starts only when none is in flight.
Idle == InFlight = 0

SeqUpsertProgress == Idle /\ DoUpsertProgress

SeqMarkRead == Idle /\ DoMarkRead

SeqAddTimeSpent == Idle /\ DoAddTimeSpent

SeqMarkLessonComplete == Idle /\ DoMarkLessonComplete

SeqGetProgress == Idle /\ CanCall /\ \E k \in Keys : GetProgress(k[1], k[2])

NextSeq ==
    \/ SeqUpsertProgress
    \/ SeqMarkRead
    \/ DoMarkWrite
    \/ SeqAddTimeSpent
    \/ SeqMarkLessonComplete
    \/ SeqGetProgress
    \/ Tick

SpecSeq == Init /\ [][NextSeq]_vars

\* ===================================================================== claims
RowsOf(k) == Matching(rows, k[1], k[2])

LastKey == <<last.userId, last.lessonId>>

LastRows == Matching(rows, last.userId, last.lessonId)

MaxOf(s) == CHOOSE m \in Elems(s) : \A x \in Elems(s) : m >= x

\* The completed calls on key k that wrote steps are markStepComplete(n) only.
OnlyMarksOf(k, n) ==
    /\ hist[k].upserts = 0
    /\ hist[k].marks[n] >= 1
    /\ \A m \in Steps \ {n} : hist[k].marks[m] = 0

\* C1: after k >= 1 markStepComplete(u, l, n) calls with the same n, starting
\* from no record, completedSteps contains n exactly once, currentStep >= n+1
\* and attempts = k.
C1_RepeatedStep ==
    \A k \in Keys, n \in Steps :
        OnlyMarksOf(k, n) =>
            /\ RowsOf(k) # {}
            /\ \A r \in RowsOf(k) :
                  /\ Count(r.completedSteps, n) = 1
                  /\ r.currentStep >= n + 1
                  /\ r.attempts = hist[k].marks[n]

C1_Witness ==
    \E k \in Keys, n \in Steps : OnlyMarksOf(k, n) /\ hist[k].marks[n] >= 2

\* C2: whatever the interleaving of the addTimeSpent(u, l, s) calls on a key,
\* once they have completed timeSpentSecs is the sum of the s supplied.
C2_TimeIsSum ==
    \A k \in Keys :
        hist[k].upserts = 0 =>
            /\ hist[k].secs > 0 => RowsOf(k) # {}
            /\ \A r \in RowsOf(k) : r.timeSpentSecs = hist[k].secs

C2_Witness ==
    /\ last.op = "addTimeSpent"
    /\ hist[LastKey].upserts = 0
    /\ hist[LastKey].secs > last.arg

\* C3: a markStepComplete(u, l, n) running concurrently with addTimeSpent
\* calls on the same key loses neither: n is in completedSteps, attempts grew
\* by 1 and timeSpentSecs grew by every s, wherever the addTimeSpent writes
\* fall relative to markStepComplete's read and write.
C3_MarkAndTimeBothKept ==
    /\ \A k \in Keys, n \in Steps :
          (OnlyMarksOf(k, n) /\ hist[k].marks[n] = 1) =>
              /\ RowsOf(k) # {}
              /\ \A r \in RowsOf(k) :
                    /\ Includes(r.completedSteps, n)
                    /\ r.attempts = 1
                    /\ r.timeSpentSecs = hist[k].secs
    \* Whatever came before: the write keeps the time found in the row.
    /\ last.op = "markStepComplete" =>
          \A r \in LastRows :
              /\ Includes(r.completedSteps, last.arg)
              /\ r.attempts =
                    (IF last.before = None THEN 0 ELSE last.before[1].attempts) + 1
              /\ r.timeSpentSecs =
                    (IF last.before = None THEN 0
                     ELSE last.before[1].timeSpentSecs)

\* The addTimeSpent write fell between markStepComplete's read and write.
C3_Witness ==
    /\ last.op = "markStepComplete"
    /\ OnlyMarksOf(LastKey, last.arg)
    /\ hist[LastKey].marks[last.arg] = 1
    /\ last.before # None
    /\ last.before[1].timeSpentSecs >
         (IF last.existing = None THEN 0 ELSE last.existing[1].timeSpentSecs)

\* C4: upsertProgress on an existing record adds the supplied timeSpentSecs,
\* hintsUsed and attempts to the stored counters and replaces currentStep and
\* completedSteps by the supplied values (also by a smaller currentStep).
C4_UpsertDualSemantics ==
    (last.op = "upsertProgress" /\ last.before # None) =>
        /\ LastRows # {}
        /\ \A r \in LastRows :
              LET d == last.arg
                  b == last.before[1]
              IN /\ d.timeSpentSecs # None =>
                       r.timeSpentSecs = b.timeSpentSecs + d.timeSpentSecs[1]
                 /\ d.hintsUsed # None =>
                       r.hintsUsed = b.hintsUsed + d.hintsUsed[1]
                 /\ d.attempts # None =>
                       r.attempts = b.attempts + d.attempts[1]
                 /\ d.currentStep # None => r.currentStep = d.currentStep[1]
                 /\ d.completedSteps # None =>
                       r.completedSteps = d.completedSteps[1]

\* The same timeSpentSecs delta supplied by two upsertProgress calls.
C4_Witness ==
    /\ last.op = "upsertProgress"
    /\ last.before # None
    /\ last.arg.timeSpentSecs # None
    /\ hist[LastKey].upserts = 2
    /\ hist[LastKey].secs = 0
    /\ \E r \in LastRows : r.timeSpentSecs = 2 * last.arg.timeSpentSecs[1]

\* C5: markLessonComplete(u, l) with no record for (u, l) fails with NotFound
\* and leaves the table as it was.
C5_CompleteMissingFails ==
    [][(/\ ncalls' = ncalls + 1
        /\ last'.op = "markLessonComplete"
        /\ Matching(rows, last'.userId, last'.lessonId) = {})
       => (last'.ret = NotFound /\ rows' = rows)]_vars

C5_Witness ==
    /\ last.op = "markLessonComplete"
    /\ last.ret.status = "NotFound"
    /\ LastRows = {}
    /\ rows # {}

CursorPastSteps(r) ==
    r.completedSteps # <<>> => r.currentStep >= MaxOf(r.completedSteps) + 1

\* C6 as stated: in every reachable state every record with non-empty
\* completedSteps has currentStep >= max(completedSteps) + 1.
C6_Original == \A r \in rows : CursorPastSteps(r)

\* C6, amended: the relation holds for every record for which no
\* upsertProgress call has supplied currentStep or completedSteps.
C6_CursorPastMarkedSteps ==
    \A k \in Keys : ~hist[k].replaced => \A r \in RowsOf(k) : CursorPastSteps(r)

\* A later step was marked before an earlier one.
C6_Witness ==
    \E k \in Keys :
        /\ ~hist[k].replaced
        /\ \E r \in RowsOf(k) :
              /\ Len(r.completedSteps) >= 2
              /\ r.completedSteps[1] > r.completedSteps[2]

\* C7 as stated: no step takes a record to a smaller currentStep.
C7_Original ==
    [][\A r \in rows : \A r2 \in Matching(rows', r.userId, r.lessonId) :
          r2.currentStep >= r.currentStep]_vars

\* C7, amended: addTimeSpent and markLessonComplete leave currentStep as it
\* is; markStepComplete(n) leaves it at least n+1 and at least the value it
\* read; upsertProgress sets it to the supplied value, smaller or not, and
\* leaves it as it is when none is supplied.
C7_CursorByOperation ==
    [][ncalls' = ncalls + 1 =>
         \A r \in Matching(rows, last'.userId, last'.lessonId) :
           \A r2 \in Matching(rows', last'.userId, last'.lessonId) :
             /\ last'.op \in {"addTimeSpent", "markLessonComplete"} =>
                   r2.currentStep = r.currentStep
             /\ last'.op = "markStepComplete" =>
                   /\ r2.currentStep >= last'.arg + 1
                   /\ last'.existing # None =>
                         r2.currentStep >= last'.existing[1].currentStep
             /\ last'.op = "upsertProgress" =>
                   r2.currentStep = OrElse(last'.arg.currentStep, r.currentStep)]_vars

\* markStepComplete of an earlier step on a record whose cursor is further.
C7_Witness ==
    /\ last.op = "markStepComplete"
    /\ last.existing # None
    /\ last.existing = last.before
    /\ last.existing[1].currentStep > last.arg + 1
    /\ \E r \in LastRows : r.currentStep = last.existing[1].currentStep

\* C8: once completedAt is set, no step clears it or moves it earlier.
C8_CompletedAtKept ==
    [][\A r \in rows :
          r.completedAt # None =>
            /\ Matching(rows', r.userId, r.lessonId) # {}
            /\ \A r2 \in Matching(rows', r.userId, r.lessonId) :
                  /\ r2.completedAt # None
                  /\ r2.completedAt[1] >= r.completedAt[1]]_vars

\* A call wrote the record of a completed lesson.
C8_Witness ==
    /\ last.op \in {"upsertProgress", "markStepComplete", "addTimeSpent"}
    /\ last.before # None
    /\ last.before[1].completedAt # None

\* C9 as stated: markLessonComplete on a record whose completedAt is set
\* leaves completedAt at the value recorded first.
C9_Original ==
    (/\ last.op = "markLessonComplete"
     /\ last.before # None
     /\ last.before[1].completedAt # None)
    => \A r \in LastRows : r.completedAt = last.before[1].completedAt

\* C9, amended: markLessonComplete on a record whose completedAt is set
\* replaces it by the time of this call.
C9_CompletedAtRewritten ==
    [][(/\ ncalls' = ncalls + 1
        /\ last'.op = "markLessonComplete"
        /\ last'.before # None
        /\ last'.before[1].completedAt # None)
       => \A r \in Matching(rows', last'.userId, last'.lessonId) :
             r.completedAt = Some(now)]_vars

C9_Witness ==
    /\ last.op = "markLessonComplete"
    /\ last.before # None
    /\ last.before[1].completedAt # None
    /\ \E r \in LastRows : r.completedAt[1] > last.before[1].completedAt[1]

\* C10: there is at most one record per (userId, lessonId), also when calls
\* that create the record lazily run concurrently on an absent key.
C10_OneRecordPerKey ==
    \A r1 \in rows, r2 \in rows :
        (r1.userId = r2.userId /\ r1.lessonId = r2.lessonId) => r1 = r2

\* A markStepComplete that read no record wrote after another call had
\* created it, with the record of another pair in the table.
C10_Witness ==
    /\ last.op = "markStepComplete"
    /\ last.existing = None
    /\ last.before # None
    /\ \E r \in rows : <<r.userId, r.lessonId>> # LastKey

Counters == {"timeSpentSecs", "hintsUsed", "attempts"}

\* C11 as stated: in every reachable state every counter of every record is
\* >= 0, and no step takes a counter of an existing record to a smaller
\* value, for every input the operations accept.
C11_CountersNeverDecrease ==
    [][/\ \A r \in rows' : \A c \in Counters : r[c] >= 0
       /\ \A r \in rows :
             \A r2 \in Matching(rows', r.userId, r.lessonId) :
                \A c \in Counters : r2[c] >= r[c]]_vars

\* C12 as stated: addTimeSpent with seconds < 0 and markStepComplete with
\* stepNumber < 0 are rejected with InvalidInput and leave the table as it
\* was.
C12_NegativeInputRejected ==
    [][(/\ ncalls' = ncalls + 1
        /\ last'.op \in {"addTimeSpent", "markStepComplete"}
        /\ last'.arg < 0)
       => (last'.ret.status = "InvalidInput" /\ rows' = rows)]_vars

RECURSIVE Total(_, _)
Total(rs, field) ==
    IF rs = {} THEN 0
    ELSE LET r == CHOOSE x \in rs : TRUE
         IN  r[field] + Total(rs \ {r}, field)

\* C13: getStats(u) returns the number of records of u, the number of those
\* with completedAt set, and the sums of their timeSpentSecs and hintsUsed;
\* the records of other users do not count, and the table is left as it was.
C13_StatsOfUser ==
    [][(ncalls' = ncalls + 1 /\ last'.op = "getStats") =>
         LET u == last'.userId
             lessons == {l \in Lessons : Matching(rows, u, l) # {}}
             mine == UNION {Matching(rows, u, l) : l \in lessons}
         IN /\ rows' = rows
            /\ last'.ret.status = "ok"
            /\ last'.ret.value =
                  Some([totalLessons |-> Cardinality(lessons),
                        completedLessons |->
                            Cardinality({l \in lessons :
                                \E r \in Matching(rows, u, l) :
                                    r.completedAt # None}),
                        totalTimeSpent |-> Total(mine, "timeSpentSecs"),
                        totalHintsUsed |-> Total(mine, "hintsUsed")])]_vars

\* getStats of a user with a completed and an open lesson, while another
\* user has spent time and used hints.
C13_Witness ==
    /\ last.op = "getStats"
    /\ last.ret.value[1].totalLessons = 2
    /\ last.ret.value[1].completedLessons = 1
    /\ last.ret.value[1].totalTimeSpent > 0
    /\ last.ret.value[1].totalHintsUsed > 0
    /\ \E r \in rows : /\ r.userId # last.userId
                        /\ r.timeSpentSecs > 0
                        /\ r.hintsUsed > 0

WriteOps == {"upsertProgress", "markStepComplete", "addTimeSpent",
             "markLessonComplete"}

\* C14: for a single-threaded caller, getProgress(u, l) right after a
\* successful write on (u, l) returns the record as that write left it: the
\* stored row, which is the record the write returned where it returns one,
\* and carries the added time after addTimeSpent.
C14_ReadYourWrite ==
    [][(/\ ncalls' = ncalls + 1
        /\ last'.op = "getProgress"
        /\ last.op \in WriteOps
        /\ last.ret.status = "ok"
        /\ last'.userId = last.userId
        /\ last'.lessonId = last.lessonId)
       => /\ last'.ret.value # None
          /\ last'.ret.value = FindUnique(rows, last.userId, last.lessonId)
          /\ last.op # "addTimeSpent" => last'.ret.value = last.ret.value
          /\ last.op = "addTimeSpent" =>
                last'.ret.value[1].timeSpentSecs =
                    (IF last.before = None THEN 0
                     ELSE last.before[1].timeSpentSecs) + last.arg]_vars

\* The third call is getProgress, after the record was created and the
\* lesson completed.
C14_Witness ==
    /\ last.op = "getProgress"
    /\ ncalls = 3
    /\ last.ret.value # None
    /\ last.ret.value[1].completedAt # None

RECURSIVE SumOf(_, _)
SumOf(f, dom) ==
    IF dom = {} THEN 0
    ELSE LET x == CHOOSE y \in dom : TRUE
         IN  f[x] + SumOf(f, dom \ {x})

Marked(k) == {n \in Steps : hist[k].marks[n] >= 1}

\* The calls completed so far are markStepComplete calls on key k, made one
\* after the other.
OnlyMarksSoFar(k) ==
    /\ ncalls >= 1
    /\ ncalls = SumOf(hist[k].marks, Steps)

\* C15: after markStepComplete(u, l, n_i) calls made one after the other, in
\* any order and with repetitions, starting from no record, completedSteps
\* holds exactly the n_i, currentStep = max(n_i) + 1 and attempts is the
\* number of calls.
C15_SequentialMarks ==
    \A k \in Keys :
        OnlyMarksSoFar(k) =>
            /\ RowsOf(k) # {}
            /\ \A r \in RowsOf(k) :
                  /\ Elems(r.completedSteps) = Marked(k)
                  /\ r.currentStep =
                        (CHOOSE m \in Marked(k) : \A n \in Marked(k) : m >= n) + 1
                  /\ r.attempts = ncalls

\* Three calls: a later step first, then an earlier one, one of them twice.
C15_Witness ==
    \E k \in Keys :
        /\ OnlyMarksSoFar(k)
        /\ ncalls = 3
        /\ \E r \in RowsOf(k) :
              /\ Len(r.completedSteps) = 2
              /\ r.completedSteps[1] > r.completedSteps[2]

Repeats(s) == \E i, j \in 1..Len(s) : i < j /\ s[i] = s[j]

\* C16 as stated: in every reachable state no record's completedSteps
\* contains a step more than once, whatever the upsertProgress and
\* markStepComplete calls were.
C16_Original == \A r \in rows : ~Repeats(r.completedSteps)

\* C16, amended: a record's completedSteps comes to contain a step more than
\* once only through an upsertProgress call whose completedSteps input
\* repeats a step, or stays so once it does; markStepComplete adds no
\* repetition to the array it read.
C16_RepeatsOnlyFromInput ==
    [][\A r2 \in rows' :
          Repeats(r2.completedSteps) =>
             \/ \E r \in Matching(rows, r2.userId, r2.lessonId) :
                    Repeats(r.completedSteps)
             \/ /\ last'.op = "upsertProgress"
                /\ last'.arg.completedSteps # None
                /\ Repeats(last'.arg.completedSteps[1])
             \/ /\ last'.op = "markStepComplete"
                /\ last'.existing # None
                /\ Repeats(last'.existing[1].completedSteps)]_vars

\* markStepComplete of a step that an upsertProgress call had stored, on a
\* record with two steps and no repetition.
C16_Witness ==
    /\ last.op = "markStepComplete"
    /\ hist[LastKey].replaced
    /\ last.before # None
    /\ Len(last.before[1].completedSteps) = 2
    /\ Includes(last.before[1].completedSteps, last.arg)
    /\ \E r \in LastRows : ~Repeats(r.completedSteps)

OptionalFields == {"currentStep", "completedSteps", "timeSpentSecs",
                   "hintsUsed", "attempts"}

\* C17: upsertProgress on an existing record leaves every field that the
\* input does not supply as it was, and never changes id, startedAt or
\* completedAt.
C17_UpsertFrame ==
    (last.op = "upsertProgress" /\ last.before # None) =>
        /\ LastRows # {}
        /\ \A r \in LastRows :
              /\ \A f \in OptionalFields :
                    last.arg[f] = None => r[f] = last.before[1][f]
              /\ r.id = last.before[1].id
              /\ r.startedAt = last.before[1].startedAt
              /\ r.completedAt = last.before[1].completedAt

\* upsertProgress supplying a counter only, on the record of a completed
\* lesson with a step marked.
C17_Witness ==
    /\ last.op = "upsertProgress"
    /\ last.before # None
    /\ last.arg.currentStep = None
    /\ last.arg.completedSteps = None
    /\ last.arg.timeSpentSecs # None
    /\ last.before[1].currentStep > 0
    /\ last.before[1].completedSteps # <<>>
    /\ last.before[1].completedAt # None

\* C18: with no record for (u, l), addTimeSpent(u, l, s) creates one with
\* timeSpentSecs = s, and markStepComplete(u, l, n) creates one with
\* completedSteps = {n}, currentStep = n+1 and attempts = 1; the fields not
\* named are at their defaults (currentStep 0, completedSteps empty, counters
\* 0) and completedAt is absent.
C18_LazyCreation ==
    /\ (last.op = "addTimeSpent" /\ last.before = None) =>
          /\ LastRows # {}
          /\ \A r \in LastRows :
                /\ r.timeSpentSecs = last.arg
                /\ r.currentStep = 0
                /\ r.completedSteps = <<>>
                /\ r.hintsUsed = 0
                /\ r.attempts = 0
                /\ r.completedAt = None
    /\ (last.op = "markStepComplete" /\ last.before = None) =>
          /\ LastRows # {}
          /\ \A r \in LastRows :
                /\ r.completedSteps = <<last.arg>>
                /\ r.currentStep = last.arg + 1
                /\ r.attempts = 1
                /\ r.timeSpentSecs = 0
                /\ r.hintsUsed = 0
                /\ r.completedAt = None

\* markStepComplete has just created the record of one pair; the record of
\* another pair is as addTimeSpent created it.
C18_Witness ==
    /\ last.op = "markStepComplete"
    /\ last.before = None
    /\ last.arg > 0
    /\ \E k \in Pairs \ {LastKey} :
          /\ hist[k].secs > 0
          /\ hist[k].upserts = 0
          /\ \A n \in Steps : hist[k].marks[n] = 0
          /\ \E r \in RowsOf(k) : r.timeSpentSecs = hist[k].secs

\* The completed calls on key k that wrote steps are two markStepComplete
\* calls, with steps a and b, and none is in flight.
TwoMarksOf(k, a, b) ==
    /\ hist[k].upserts = 0
    /\ InFlight = 0
    /\ \A n \in Steps :
          hist[k].marks[n] = (IF n = a THEN 1 ELSE 0) + (IF n = b THEN 1 ELSE 0)

\* C19 as stated: however the reads and writes of two concurrent
\* markStepComplete calls on one key, with steps a and b, interleave, the
\* record ends as after running them one after the other: completedSteps
\* contains a and b, and currentStep >= max(a, b) + 1.
C19_ConcurrentMarksBothKept ==
    \A k \in Keys, a \in Steps, b \in Steps :
        TwoMarksOf(k, a, b) =>
            /\ RowsOf(k) # {}
            /\ \A r \in RowsOf(k) :
                  /\ Includes(r.completedSteps, a)
                  /\ Includes(r.completedSteps, b)
                  /\ r.currentStep >= Max(a, b) + 1

\* C20: an operation on key (u, l) leaves the records of every other key
\* as they are, other lessons of the same user included, however the calls
\* interleave: the records of a key change only in the step that completes a
\* call on that key.
C20_OtherKeysUntouched ==
    [][\A k \in Pairs :
          RowsOf(k)' # RowsOf(k) =>
             /\ ncalls' = ncalls + 1
             /\ LastKey' = k]_vars

\* markLessonComplete on one lesson of a user whose other lesson has a
\* record, which is not completed.
C20_Witness ==
    /\ last.op = "markLessonComplete"
    /\ last.ret.status = "ok"
    /\ \E r \in rows : /\ r.userId = last.userId
                        /\ r.lessonId # last.lessonId
                        /\ r.completedAt = None

====
